---- MODULE Spec2Model ----
(***************************************************************************)
(* A model of src/turing_machine.rs: the TuringMachine engine (steps,      *)
(* state, table, tape), its operations step(), run() and count1s(), and    *)
(* the three-part Tape (left, center, right) with mov() and count1s().     *)
(***************************************************************************)
EXTENDS Integers, Sequences, FiniteSets, TLC

VARIABLES
    steps,    \* TuringMachine.steps : usize
    state,    \* TuringMachine.state : String
    table,    \* TuringMachine.table : state -> symbol -> (write, move, next)
    tape,     \* TuringMachine.tape  : [left, center, right]
    err,      \* the panic raised by the last call, or NoPanic
    pc,       \* where the driver is: "idle", or "run" inside run()'s loop
    op,       \* the last operation that acted
    pre,      \* the machine as it was when the last step() / mov() was entered
    entry,    \* the machine as it was when run() was entered
    ones,     \* the value the last count1s() returned
    calls,    \* how many step() calls were entered in a state other than "HALT"
    dir,      \* the argument of the last mov()
    orig,     \* the tape a sequence of moves started from
    hist,     \* the moves (and writes) made and not yet undone, latest first
    abs       \* the tape as a head position and cells at integer positions

vars ==
    <<steps, state, table, tape, err, pc, op, pre, entry, ones, calls, dir, orig,
      hist, abs>>

----------------------------------------------------------------------------
(* Bounds of the model. *)

\* the step counter is a usize; the model stops driving the machine here
MaxSteps == 6
\* longest left / right of an initial tape of the machine
MaxInitLen == 1
\* longest left / right of a tape handed to the tape operations alone
MaxTapeLen == 2
\* longest sequence of moves made before they are undone
MaxMoves == 3
\* longest sequence of writes and moves made on one tape
MaxOps == 4

----------------------------------------------------------------------------
(* Values. *)

HALT == "HALT"
BLANK == "0"
ONE == "1"

Moves == {"L", "R", "N"}

\* symbols of the machines' tables and initial tapes
Symbols == {"0", "1"}
\* symbols of the tapes handed to the tape operations alone
TapeSymbols == {"0", "1", "2"}

\* state names: "A" and "B" may be table keys, "HALT" is the halt state
States == {"A", "B", HALT}

SeqsUpTo(S, n) == UNION {[1..k -> S] : k \in 0..n}

\* panic!("Error1") / panic!("Error2"): a format string and no arguments
Panic(m) == [msg |-> m, args |-> <<>>]
NoPanic == [msg |-> "none", args |-> <<>>]

----------------------------------------------------------------------------
(* VecDeque<String>, front first. *)

push_front(q, x) == <<x>> \o q

pop_front(q) ==
    IF q = <<>>
    THEN [some |-> FALSE, val |-> BLANK, rest |-> q]
    ELSE [some |-> TRUE, val |-> Head(q), rest |-> Tail(q)]

----------------------------------------------------------------------------
(* Tape. *)

Tape(l, c, r) == [left |-> l, center |-> c, right |-> r]

RECURSIVE CountIter(_, _)
\* for t in q.iter() { if t == "1" { ones += 1; } }
CountIter(q, acc) ==
    IF q = <<>> THEN acc
    ELSE CountIter(Tail(q), IF Head(q) = ONE THEN acc + 1 ELSE acc)

\* count1s() leaving out the cell under the head
count1s_SkipsCenter(t) == CountIter(t.right, CountIter(t.left, 0))

\* Tape::count1s
count1s(t) ==
    LET l == CountIter(t.left, 0)
        c == IF t.center = ONE THEN l + 1 ELSE l
    IN  CountIter(t.right, c)

\* mov() pushing the center onto the far end of the other side
mov_PushesBack(t, d) ==
    IF d = "L" THEN
        LET r == Append(t.right, t.center)
            p == pop_front(t.left)
        IN  Tape(p.rest, IF p.some THEN p.val ELSE "0", r)
    ELSE IF d = "R" THEN
        LET l == Append(t.left, t.center)
            p == pop_front(t.right)
        IN  Tape(l, IF p.some THEN p.val ELSE "0", p.rest)
    ELSE t

\* mov() pushing the center only when the side it moves to has a cell
mov_NoPushAtEnd(t, d) ==
    IF d = "L" THEN
        LET p == pop_front(t.left)
        IN  IF p.some THEN Tape(p.rest, p.val, push_front(t.right, t.center))
            ELSE Tape(t.left, "0", t.right)
    ELSE IF d = "R" THEN
        LET p == pop_front(t.right)
        IN  IF p.some THEN Tape(push_front(t.left, t.center), p.val, p.rest)
            ELSE Tape(t.left, "0", t.right)
    ELSE t

\* mov() with left and right exchanged
mov_Mirrored(t, d) ==
    IF d = "R" THEN
        LET r == push_front(t.right, t.center)
            p == pop_front(t.left)
        IN  Tape(p.rest, IF p.some THEN p.val ELSE "0", r)
    ELSE IF d = "L" THEN
        LET l == push_front(t.left, t.center)
            p == pop_front(t.right)
        IN  Tape(l, IF p.some THEN p.val ELSE "0", p.rest)
    ELSE t

\* mov() taking every direction other than L for R
mov_ElseRight(t, d) ==
    IF d = "L" THEN
        LET r == push_front(t.right, t.center)
            p == pop_front(t.left)
        IN  Tape(p.rest, IF p.some THEN p.val ELSE "0", r)
    ELSE
        LET l == push_front(t.left, t.center)
            p == pop_front(t.right)
        IN  Tape(l, IF p.some THEN p.val ELSE "0", p.rest)

\* Tape::mov
mov(t, d) ==
    IF d = "L" THEN
        LET r == push_front(t.right, t.center)
            p == pop_front(t.left)
        IN  Tape(p.rest, IF p.some THEN p.val ELSE "0", r)
    ELSE IF d = "R" THEN
        LET l == push_front(t.left, t.center)
            p == pop_front(t.right)
        IN  Tape(l, IF p.some THEN p.val ELSE "0", p.rest)
    ELSE t

\* a write that keeps the old symbol as a cell left of the head
write_Inserts(t, s) == [t EXCEPT !.center = s, !.left = push_front(t.left, t.center)]

\* self.tape.center = s
write(t, s) == [t EXCEPT !.center = s]

----------------------------------------------------------------------------
(* TuringMachine. *)

Machine(n, q, tb, t) == [steps |-> n, state |-> q, table |-> tb, tape |-> t]

Self == Machine(steps, state, table, tape)

\* Lookup with one message for both failures
Lookup_OneMessage(self) ==
    IF self.state \in DOMAIN self.table
    THEN IF self.tape.center \in DOMAIN self.table[self.state]
         THEN [found |-> TRUE,
               next |-> self.table[self.state][self.tape.center],
               panic |-> NoPanic]
         ELSE [found |-> FALSE, next |-> <<>>, panic |-> Panic("Error1")]
    ELSE [found |-> FALSE, next |-> <<>>, panic |-> Panic("Error1")]

\* Lookup with the two messages the other way round
Lookup_Swapped(self) ==
    IF self.state \in DOMAIN self.table
    THEN IF self.tape.center \in DOMAIN self.table[self.state]
         THEN [found |-> TRUE,
               next |-> self.table[self.state][self.tape.center],
               panic |-> NoPanic]
         ELSE [found |-> FALSE, next |-> <<>>, panic |-> Panic("Error2")]
    ELSE [found |-> FALSE, next |-> <<>>, panic |-> Panic("Error1")]

\* Lookup reading the cell left of the head when there is one
Lookup_ReadsLeft(self) ==
    LET c == IF self.tape.left = <<>> THEN self.tape.center
             ELSE Head(self.tape.left)
    IN  IF self.state \in DOMAIN self.table
        THEN IF c \in DOMAIN self.table[self.state]
             THEN [found |-> TRUE,
                   next |-> self.table[self.state][c],
                   panic |-> NoPanic]
             ELSE [found |-> FALSE, next |-> <<>>, panic |-> Panic("Error1")]
        ELSE [found |-> FALSE, next |-> <<>>, panic |-> Panic("Error2")]

\* the match of step(): the rule found, or the panic raised
Lookup(self) ==
    IF self.state \in DOMAIN self.table
    THEN IF self.tape.center \in DOMAIN self.table[self.state]
         THEN [found |-> TRUE,
               next |-> self.table[self.state][self.tape.center],
               panic |-> NoPanic]
         ELSE [found |-> FALSE, next |-> <<>>, panic |-> Panic("Error1")]
    ELSE [found |-> FALSE, next |-> <<>>, panic |-> Panic("Error2")]

\* step() moving the head before it writes the symbol
step_MoveThenWrite(self) ==
    IF self.state # HALT THEN
        LET counted == [self EXCEPT !.steps = @ + 1]
            got == Lookup(counted)
        IN  IF got.found
            THEN LET moved == mov(counted.tape, got.next[2])
                     written == [moved EXCEPT !.center = got.next[1]]
                 IN  [self |-> [counted EXCEPT !.tape = written,
                                               !.state = got.next[3]],
                      panic |-> NoPanic]
            ELSE [self |-> counted, panic |-> got.panic]
    ELSE [self |-> self, panic |-> NoPanic]

\* step() without the test for "HALT"
step_NoHaltTest(self) ==
    LET counted == [self EXCEPT !.steps = @ + 1]
        got == Lookup(counted)
    IN  IF got.found
        THEN LET written == [counted.tape EXCEPT !.center = got.next[1]]
                 moved == mov(written, got.next[2])
             IN  [self |-> [counted EXCEPT !.tape = moved,
                                           !.state = got.next[3]],
                  panic |-> NoPanic]
        ELSE [self |-> counted, panic |-> got.panic]

\* step() counting the step only once the rule is found
step_CountsAfterLookup(self) ==
    IF self.state # HALT THEN
        LET got == Lookup(self)
        IN  IF got.found
            THEN LET counted == [self EXCEPT !.steps = @ + 1]
                     written == [counted.tape EXCEPT !.center = got.next[1]]
                     moved == mov(written, got.next[2])
                 IN  [self |-> [counted EXCEPT !.tape = moved,
                                               !.state = got.next[3]],
                      panic |-> NoPanic]
            ELSE [self |-> self, panic |-> got.panic]
    ELSE [self |-> self, panic |-> NoPanic]

\* step() refusing a rule whose next state has no row
step_ValidatesNext(self) ==
    IF self.state # HALT THEN
        LET counted == [self EXCEPT !.steps = @ + 1]
            got == Lookup(counted)
        IN  IF got.found
            THEN IF got.next[3] # HALT /\ got.next[3] \notin DOMAIN self.table
                 THEN [self |-> counted, panic |-> Panic("Error2")]
                 ELSE LET written == [counted.tape EXCEPT !.center = got.next[1]]
                          moved == mov(written, got.next[2])
                      IN  [self |-> [counted EXCEPT !.tape = moved,
                                                    !.state = got.next[3]],
                           panic |-> NoPanic]
            ELSE [self |-> counted, panic |-> got.panic]
    ELSE [self |-> self, panic |-> NoPanic]

\* step() taking the next state from the rule's first element
step_StateFromWrite(self) ==
    IF self.state # HALT THEN
        LET counted == [self EXCEPT !.steps = @ + 1]
            got == Lookup(counted)
        IN  IF got.found
            THEN LET written == [counted.tape EXCEPT !.center = got.next[1]]
                     moved == mov(written, got.next[2])
                 IN  [self |-> [counted EXCEPT !.tape = moved,
                                               !.state = got.next[1]],
                      panic |-> NoPanic]
            ELSE [self |-> counted, panic |-> got.panic]
    ELSE [self |-> self, panic |-> NoPanic]

\* step() putting the machine in "HALT" when the lookup fails
step_HaltsOnFailure(self) ==
    IF self.state # HALT THEN
        LET counted == [self EXCEPT !.steps = @ + 1]
            got == Lookup(counted)
        IN  IF got.found
            THEN LET written == write(counted.tape, got.next[1])
                     moved == mov(written, got.next[2])
                 IN  [self |-> [counted EXCEPT !.tape = moved,
                                               !.state = got.next[3]],
                      panic |-> NoPanic]
            ELSE [self |-> [counted EXCEPT !.state = HALT], panic |-> got.panic]
    ELSE [self |-> self, panic |-> NoPanic]

\* TuringMachine::step: the machine after the call and the panic it raised
step(self) ==
    IF self.state # HALT THEN
        LET counted == [self EXCEPT !.steps = @ + 1]
            got == Lookup(counted)
        IN  IF got.found
            THEN LET written == write(counted.tape, got.next[1])
                     moved == mov(written, got.next[2])
                 IN  [self |-> [counted EXCEPT !.tape = moved,
                                               !.state = got.next[3]],
                      panic |-> NoPanic]
            ELSE [self |-> counted, panic |-> got.panic]
    ELSE [self |-> self, panic |-> NoPanic]

\* count1s() counting by taking the cells off left and right
TuringMachine_count1s_Drains(self) ==
    [self |-> [self EXCEPT !.tape = Tape(<<>>, self.tape.center, <<>>)],
     ones |-> count1s(self.tape)]

\* TuringMachine::count1s(&mut self): the machine after the call and the
\* count returned; Tape::count1s only reads the tape
TuringMachine_count1s(self) == [self |-> self, ones |-> count1s(self.tape)]

\* run() with the loop's test inverted
run_TestInverted(self) ==
    IF self.state = HALT
    THEN [again |-> TRUE, did |-> step(self)]
    ELSE [again |-> FALSE, did |-> [self |-> self, panic |-> NoPanic]]

\* TuringMachine::run, one turn of `while self.state != "HALT" { self.step(); }`:
\* whether the loop goes on, and what the turn did
run(self) ==
    IF self.state # HALT
    THEN [again |-> TRUE, did |-> step(self)]
    ELSE [again |-> FALSE, did |-> [self |-> self, panic |-> NoPanic]]

----------------------------------------------------------------------------
(* The machines the model is constructed from (deserialized descriptions). *)

Rule(w, m, q) == <<w, m, q>>

\* the rules of a one-state machine: write, move, stay in "A" or halt
Rules == {Rule(w, m, q) : w \in Symbols, m \in Moves, q \in {"A", HALT}}

\* every row of such rules over Symbols, total or partial
Rows == UNION {[D -> Rules] : D \in SUBSET Symbols}

\* the 2-state busy beaver
BusyBeaver2 ==
    ("A" :> ("0" :> Rule("1", "R", "B") @@ "1" :> Rule("1", "L", "B"))) @@
    ("B" :> ("0" :> Rule("1", "L", "A") @@ "1" :> Rule("1", "R", HALT)))

\* a table with no path to "HALT"
PingPong ==
    ("A" :> ("0" :> Rule("0", "R", "B") @@ "1" :> Rule("1", "R", "B"))) @@
    ("B" :> ("0" :> Rule("1", "L", "A") @@ "1" :> Rule("0", "L", "A")))

\* a table that has a row for the reserved name, which nothing forbids
HaltKeyed ==
    ("A" :> ("0" :> Rule("1", "N", HALT) @@ "1" :> Rule("0", "L", HALT))) @@
    (HALT :> ("0" :> Rule("1", "R", "A")))

\* a table whose rules name a state it has no row for
Dangling ==
    "A" :> ("0" :> Rule("1", "R", "B") @@ "1" :> Rule("0", "N", "B"))

EmptyTable == [q \in {} |-> <<>>]

Tables ==
    {("A" :> row) : row \in Rows} \cup
    {BusyBeaver2, PingPong, HaltKeyed, Dangling, EmptyTable}

InitTapes ==
    {Tape(l, c, r) : l \in SeqsUpTo(Symbols, MaxInitLen), c \in Symbols,
                     r \in SeqsUpTo(Symbols, MaxInitLen)}

\* what pre and entry remember of a machine
Snap(self) == [steps |-> self.steps, state |-> self.state, tape |-> self.tape]

NoSnap == [steps |-> 0, state |-> HALT, tape |-> Tape(<<>>, BLANK, <<>>)]

\* abs where no cells are kept
NoAbs == [head |-> 0, cells |-> <<>>]

Init ==
    /\ steps = 0
    /\ state \in States
    /\ table \in Tables
    /\ tape \in InitTapes
    /\ err = NoPanic
    /\ pc = "idle"
    /\ op = "new"
    /\ pre = NoSnap
    /\ entry = NoSnap
    /\ ones = 0
    /\ calls = 0
    /\ dir = "N"
    /\ orig = Tape(<<>>, BLANK, <<>>)
    /\ hist = <<>>
    /\ abs = NoAbs

----------------------------------------------------------------------------
(* The driver's calls. *)

\* the machine's fields after a call that returned or panicked with `r`
Becomes(r) ==
    /\ steps' = r.self.steps
    /\ state' = r.self.state
    /\ table' = r.self.table
    /\ tape' = r.self.tape
    /\ err' = r.panic

\* a call of step() by the driver
Step ==
    /\ pc = "idle"
    /\ state = HALT \/ steps < MaxSteps
    /\ Becomes(step(Self))
    /\ op' = "step"
    /\ pre' = Snap(Self)
    /\ calls' = IF state # HALT THEN calls + 1 ELSE calls
    /\ entry' = NoSnap
    /\ ones' = 0
    /\ UNCHANGED <<pc, dir, orig, hist, abs>>

\* a call of run(): the loop is entered
RunEnter ==
    /\ pc = "idle"
    /\ pc' = "run"
    /\ op' = "run"
    /\ entry' = Snap(Self)
    /\ pre' = NoSnap
    /\ err' = NoPanic
    /\ ones' = 0
    /\ UNCHANGED <<steps, state, table, tape, calls, dir, orig, hist, abs>>

\* one turn of run()'s loop: the condition holds and step() is called; a panic
\* unwinds out of run()
RunIter ==
    /\ pc = "run"
    /\ run(Self).again
    /\ state = HALT \/ steps < MaxSteps
    /\ LET r == run(Self).did
       IN  /\ Becomes(r)
           /\ pc' = IF r.panic = NoPanic THEN "run" ELSE "idle"
    /\ op' = "step"
    /\ pre' = Snap(Self)
    /\ calls' = IF state # HALT THEN calls + 1 ELSE calls
    /\ UNCHANGED <<entry, ones, dir, orig, hist, abs>>

\* run()'s loop condition fails and run() returns
RunReturn ==
    /\ pc = "run"
    /\ ~run(Self).again
    /\ Becomes(run(Self).did)
    /\ pc' = "idle"
    /\ op' = "run"
    /\ pre' = NoSnap
    /\ UNCHANGED <<entry, ones, calls, dir, orig, hist, abs>>

\* a call of count1s() by the driver
CountOnes ==
    /\ pc = "idle"
    /\ LET r == TuringMachine_count1s(Self)
       IN  /\ steps' = r.self.steps
           /\ state' = r.self.state
           /\ table' = r.self.table
           /\ tape' = r.self.tape
           /\ ones' = r.ones
    /\ op' = "count1s"
    /\ err' = NoPanic
    /\ pre' = NoSnap
    /\ entry' = NoSnap
    /\ UNCHANGED <<pc, calls, dir, orig, hist, abs>>

Next == Step \/ RunEnter \/ RunIter \/ RunReturn \/ CountOnes

Spec == Init /\ [][Next]_vars

\* run()'s loop keeps turning: nothing else runs while it does
LiveSpec == Spec /\ WF_vars(RunIter) /\ WF_vars(RunReturn)

----------------------------------------------------------------------------
(* The tape operations alone: mov() and count1s() applied to any tape, and *)
(* a sequence of moves undone in reverse order.                            *)

Tapes ==
    {Tape(l, c, r) : l \in SeqsUpTo(TapeSymbols, MaxTapeLen), c \in TapeSymbols,
                     r \in SeqsUpTo(TapeSymbols, MaxTapeLen)}

\* the move that undoes d
Undo(d) == IF d = "L" THEN "R" ELSE IF d = "R" THEN "L" ELSE "N"

TapeInit ==
    /\ tape \in Tapes
    /\ orig = tape
    /\ hist = <<>>
    /\ pc = "fwd"
    /\ op = "new"
    /\ dir = "N"
    /\ ones = 0
    /\ pre = NoSnap
    /\ steps = 0
    /\ state = HALT
    /\ table = EmptyTable
    /\ err = NoPanic
    /\ entry = NoSnap
    /\ calls = 0
    /\ abs = NoAbs

\* tape.mov(d), one of the moves of the sequence
TapeMov(d) ==
    /\ pc = "fwd"
    /\ Len(hist) < MaxMoves
    /\ tape' = mov(tape, d)
    /\ hist' = <<d>> \o hist
    /\ dir' = d
    /\ op' = "mov"
    /\ pre' = [NoSnap EXCEPT !.tape = tape]
    /\ ones' = 0
    /\ UNCHANGED <<steps, state, table, err, pc, entry, calls, orig, abs>>

\* tape.mov() undoing the latest move not yet undone
TapeUndo ==
    /\ hist # <<>>
    /\ tape' = mov(tape, Undo(Head(hist)))
    /\ hist' = Tail(hist)
    /\ dir' = Undo(Head(hist))
    /\ pc' = "back"
    /\ op' = "mov"
    /\ pre' = [NoSnap EXCEPT !.tape = tape]
    /\ ones' = 0
    /\ UNCHANGED <<steps, state, table, err, entry, calls, orig, abs>>

\* tape.count1s()
TapeCount ==
    /\ ones' = count1s(tape)
    /\ op' = "count1s"
    /\ pre' = NoSnap
    /\ UNCHANGED <<steps, state, table, tape, err, pc, entry, calls, dir, orig, hist, abs>>

TapeNext == (\E d \in Moves : TapeMov(d)) \/ TapeUndo \/ TapeCount

TapeSpec == TapeInit /\ [][TapeNext]_vars

----------------------------------------------------------------------------
(* The tape read as cells at integer positions relative to the head.       *)

\* the symbol of tape t at position i relative to its head (0 is the head,
\* negative is left); a position not materialized holds the blank
Cell(t, i) ==
    IF i = 0 THEN t.center
    ELSE IF i < 0
         THEN (IF -i <= Len(t.left) THEN t.left[-i] ELSE BLANK)
         ELSE (IF i <= Len(t.right) THEN t.right[i] ELSE BLANK)

\* how far the head moves
Shift(d) == IF d = "L" THEN -1 ELSE IF d = "R" THEN 1 ELSE 0

\* the positions any tape of the model can have materialized
Reach == MaxSteps + MaxInitLen + MaxTapeLen + MaxMoves + 1

Positions == (-Reach)..Reach

\* the last call was a step() entered in a state other than "HALT"
SteppedLive == op = "step" /\ pre.state # HALT

\* the table has a rule for the configuration the last step() was entered in
PreDefined ==
    /\ pre.state \in DOMAIN table
    /\ pre.tape.center \in DOMAIN table[pre.state]

PreRule == table[pre.state][pre.tape.center]

----------------------------------------------------------------------------
(* Writes to the head cell and moves, in any order, on one tape, beside    *)
(* the same writes and moves on cells at integer positions.                *)

Cells(t) == [i \in Positions |-> Cell(t, i)]

\* the cell under the head becomes s
AbsWrite(a, s) == [a EXCEPT !.cells[a.head] = s]

\* the head goes one position left or right, or stays
AbsMove(a, d) == [a EXCEPT !.head = @ + Shift(d)]

CellInit ==
    /\ tape \in InitTapes
    /\ abs = [head |-> 0, cells |-> Cells(tape)]
    /\ orig = tape
    /\ hist = <<>>
    /\ pc = "fwd"
    /\ op = "new"
    /\ dir = "N"
    /\ ones = 0
    /\ pre = NoSnap
    /\ steps = 0
    /\ state = HALT
    /\ table = EmptyTable
    /\ err = NoPanic
    /\ entry = NoSnap
    /\ calls = 0

\* tape.center = s
CellWrite(s) ==
    /\ Len(hist) < MaxOps
    /\ tape' = write(tape, s)
    /\ abs' = AbsWrite(abs, s)
    /\ hist' = <<s>> \o hist
    /\ op' = "write"
    /\ pre' = [NoSnap EXCEPT !.tape = tape]
    /\ UNCHANGED <<steps, state, table, err, pc, entry, ones, calls, dir, orig>>

\* tape.mov(d)
CellMov(d) ==
    /\ Len(hist) < MaxOps
    /\ tape' = mov(tape, d)
    /\ abs' = AbsMove(abs, d)
    /\ hist' = <<d>> \o hist
    /\ dir' = d
    /\ op' = "mov"
    /\ pre' = [NoSnap EXCEPT !.tape = tape]
    /\ UNCHANGED <<steps, state, table, err, pc, entry, ones, calls, orig>>

CellNext == (\E s \in TapeSymbols : CellWrite(s)) \/ (\E d \in Moves : CellMov(d))

CellSpec == CellInit /\ [][CellNext]_vars

----------------------------------------------------------------------------
(* C1: a step() entered in a state q other than "HALT", with a rule         *)
(* table[q][c] = (w, m, q2) for the symbol c under the head, leaves w in    *)
(* the cell that was under the head, the head moved by m, the state q2,     *)
(* and every other cell with the symbol it had.                             *)
StepAppliesRule ==
    (SteppedLive /\ PreDefined) =>
        /\ err = NoPanic
        /\ state = PreRule[3]
        /\ \A i \in Positions :
              Cell(tape, i - Shift(PreRule[2])) =
                  IF i = 0 THEN PreRule[1] ELSE Cell(pre.tape, i)

\* a step() wrote a symbol other than the one read and moved the head left
\* off the materialized end
StepAppliesRuleSeen ==
    /\ SteppedLive /\ PreDefined
    /\ PreRule[1] # pre.tape.center
    /\ PreRule[2] = "L"
    /\ pre.tape.left = <<>>
    /\ pre.tape.right # <<>>

(* C2: a step() entered in state "HALT" changes nothing: the step counter, *)
(* the state, the tape and the table are as before, and nothing is raised,  *)
(* whatever the table holds.                                                *)
HaltedStepIsNoOp ==
    (op = "step" /\ pre.state = HALT) =>
        /\ steps = pre.steps
        /\ state = HALT
        /\ tape = pre.tape
        /\ err = NoPanic

\* step() was called on a machine that had run to "HALT", with a table that
\* has a rule for the halted configuration
HaltedStepIsNoOpSeen ==
    /\ op = "step" /\ pre.state = HALT
    /\ HALT \in DOMAIN table
    /\ pre.tape.center \in DOMAIN table[HALT]
    /\ pre.steps > 0

(* C3: a step() entered in a state other than "HALT" adds exactly one to    *)
(* the step counter, one entered in "HALT" leaves it; the counter is the    *)
(* number of step() calls entered in a state other than "HALT".             *)
StepCounts ==
    /\ op = "step" => steps = pre.steps + (IF pre.state # HALT THEN 1 ELSE 0)
    /\ steps = calls

\* the counter counted calls that applied a rule and a call that panicked
StepCountsSeen ==
    /\ SteppedLive
    /\ err # NoPanic
    /\ steps >= 3

(* C4: step() panics with "Error2" (UndefinedState) exactly when it is      *)
(* entered in a state other than "HALT" that is no key of the table,        *)
(* whatever is under the head; a missing symbol is reported otherwise.      *)
UndefinedStateKind ==
    op = "step" =>
        /\ err = Panic("Error2") <=>
              (pre.state # HALT /\ pre.state \notin DOMAIN table)
        /\ (SteppedLive /\ pre.state \in DOMAIN table /\ ~PreDefined) =>
              (err # NoPanic /\ err.msg # "Error2")

\* a step() installed a state the table has no row for, and the next step()
\* panicked with "Error2"
UndefinedStateKindSeen ==
    /\ SteppedLive
    /\ pre.steps > 0
    /\ pre.state \notin DOMAIN table
    /\ DOMAIN table # {}
    /\ err = Panic("Error2")

(* C5, as claimed: step() panics with "Error1" (UndefinedTransition)        *)
(* exactly when the current state is a key of the table whose row has no    *)
(* rule for the symbol under the head.                                      *)
UndefinedTransitionKindAsClaimed ==
    op = "step" =>
        (err = Panic("Error1") <=>
            (pre.state \in DOMAIN table /\
             pre.tape.center \notin DOMAIN table[pre.state]))

(* C5, amended: step() panics with "Error1" exactly when the current state  *)
(* is not "HALT", is a key of the table, and its row has no rule for the    *)
(* symbol under the head.                                                   *)
UndefinedTransitionKind ==
    op = "step" =>
        (err = Panic("Error1") <=>
            (pre.state # HALT /\ pre.state \in DOMAIN table /\
             pre.tape.center \notin DOMAIN table[pre.state]))

\* a step() panicked with "Error1" in a row that has a rule for another
\* symbol
UndefinedTransitionKindSeen ==
    /\ SteppedLive
    /\ pre.state \in DOMAIN table
    /\ DOMAIN table[pre.state] # {}
    /\ pre.tape.center \notin DOMAIN table[pre.state]
    /\ err = Panic("Error1")

(* C6, as claimed: when a lookup of step() fails, the error raised carries  *)
(* the current state and the symbol under the head.                         *)
ErrorNamesStateAndSymbol ==
    (op = "step" /\ err # NoPanic) =>
        /\ \E i \in DOMAIN err.args : err.args[i] = pre.state
        /\ \E i \in DOMAIN err.args : err.args[i] = pre.tape.center

----------------------------------------------------------------------------
(* The machine the table describes, on a tape of cells at absolute         *)
(* positions: how many rules it applies before it reaches "HALT".          *)

RECURSIVE HaltTime(_, _, _, _, _)
\* the number of rules table tb applies from state q with the head at h on
\* cells until the state is "HALT"; -1 when it is not reached within fuel
\* rules, or a rule is missing on the way
HaltTime(tb, q, h, cells, fuel) ==
    IF q = HALT THEN 0
    ELSE IF fuel = 0 \/ q \notin DOMAIN tb THEN -1
    ELSE IF cells[h] \notin DOMAIN tb[q] THEN -1
    ELSE LET rule == tb[q][cells[h]]
             rest == HaltTime(tb, rule[3], h + Shift(rule[2]),
                              [cells EXCEPT ![h] = rule[1]], fuel - 1)
         IN  IF rest < 0 THEN -1 ELSE rest + 1

\* for the configuration run() was entered in
EntryHaltTime ==
    HaltTime(table, entry.state, 0, Cells(entry.tape), MaxSteps - entry.steps)

Returned == op = "run" /\ pc = "idle"

RunReturnsHalted ==
    /\ Returned => state = HALT
    /\ (Returned /\ entry.state = HALT) =>
          (steps = entry.steps /\ tape = entry.tape)
    /\ (Returned /\ EntryHaltTime >= 0) => steps = entry.steps + EntryHaltTime

(* C7: whenever run() returns the state is "HALT"; run() entered in "HALT"  *)
(* does no step; and when the table takes the configuration run() was       *)
(* entered in to "HALT" in n rules, run() returns, with the step counter    *)
(* n higher than at entry.                                                  *)
RunToHalt ==
    /\ []RunReturnsHalted
    /\ (pc = "run" /\ EntryHaltTime >= 0) ~>
          (Returned /\ steps = entry.steps + EntryHaltTime)

\* run() returned after the table took the machine to "HALT" in three rules
\* or more
RunToHaltSeen ==
    /\ Returned
    /\ EntryHaltTime >= 3
    /\ steps = entry.steps + EntryHaltTime

----------------------------------------------------------------------------
(* The tape operations alone. *)

\* q2 is q with x put in front
Fronted(q2, x, q) ==
    /\ Len(q2) = Len(q) + 1
    /\ q2[1] = x
    /\ \A i \in 1..Len(q) : q2[i + 1] = q[i]

\* c and q2 are the front of q and what is left of it, or the blank and
\* nothing when q is empty
Popped(c, q2, q) ==
    IF Len(q) = 0
    THEN c = BLANK /\ Len(q2) = 0
    ELSE /\ c = q[1]
         /\ Len(q2) = Len(q) - 1
         /\ \A i \in 1..Len(q2) : q2[i] = q[i + 1]

(* C8: mov(L) puts the center in front of right and takes the new center    *)
(* from the front of left, or the blank "0" when left is empty; mov(R) is   *)
(* the same with left and right exchanged.                                  *)
MovShiftsTape ==
    op = "mov" =>
        /\ dir = "L" =>
              /\ Fronted(tape.right, pre.tape.center, pre.tape.right)
              /\ Popped(tape.center, tape.left, pre.tape.left)
        /\ dir = "R" =>
              /\ Fronted(tape.left, pre.tape.center, pre.tape.left)
              /\ Popped(tape.center, tape.right, pre.tape.right)

\* a mov(L) from the leftmost materialized cell, which held a symbol other
\* than the blank, with cells to its right
MovShiftsTapeSeen ==
    /\ op = "mov" /\ dir = "L"
    /\ pre.tape.left = <<>>
    /\ pre.tape.center # BLANK
    /\ Len(pre.tape.right) = MaxTapeLen
    /\ tape.center = BLANK

\* the positions of t, relative to its head, that are materialized
Materialized(t) == (-Len(t.left))..Len(t.right)

\* the number of materialized cells of t that hold s
Census(t, s) == Cardinality({i \in Materialized(t) : Cell(t, i) = s})

(* C9: the count count1s() returns is the number of materialized cells,     *)
(* over left, center and right, each once, that hold "1".                   *)
CensusIsExact ==
    op = "count1s" => ones = Census(tape, ONE)

\* count1s() counted a "1" on each side and under the head, on a tape that
\* also holds other symbols
CensusIsExactSeen ==
    /\ op = "count1s"
    /\ ones = 3
    /\ tape.center = ONE
    /\ Len(tape.left) = 2 /\ Len(tape.right) = 2
    /\ Census(tape, BLANK) = 1

\* now is was, with blanks added at its far end
Padded(now, was) ==
    /\ Len(now) >= Len(was)
    /\ \A i \in 1..Len(now) : now[i] = (IF i <= Len(was) THEN was[i] ELSE BLANK)

\* every move of a sequence has been undone, latest first
RoundTripDone == pc = "back" /\ hist = <<>>

(* C10: after a sequence of moves followed by their undoing in reverse      *)
(* order, the head is on the cell it started on and every cell holds what   *)
(* it held, except that left and right may have gained explicit "0" cells   *)
(* at their far ends; the census of every symbol other than the blank is    *)
(* what it was.                                                             *)
MoveRoundTrip ==
    RoundTripDone =>
        /\ tape.center = orig.center
        /\ Padded(tape.left, orig.left)
        /\ Padded(tape.right, orig.right)
        /\ \A s \in TapeSymbols \ {BLANK} : Census(tape, s) = Census(orig, s)
        /\ count1s(tape) = count1s(orig)

\* a round trip of MaxMoves moves that went off the left end and came back
\* with left longer than it was
MoveRoundTripSeen ==
    /\ RoundTripDone
    /\ Len(tape.left) > Len(orig.left)
    /\ orig.center # BLANK
    /\ orig.right # <<>>
    /\ tape # orig

----------------------------------------------------------------------------
\* the machines that share the table, the state and the symbol under the head
\* of the machine the last step() was entered on, and differ in the rest
Alike ==
    {Machine(n, pre.state, table, Tape(l, pre.tape.center, r)) :
        n \in 0..MaxSteps,
        l \in SeqsUpTo(Symbols, MaxInitLen),
        r \in SeqsUpTo(Symbols, MaxInitLen)}

(* C11: when step() fails for a missing (state, symbol) entry, step() on    *)
(* any machine with the same table, state and symbol under the head fails   *)
(* with the same message, whatever its left, right and step counter hold.   *)
UndefinedLookupDeterminism ==
    (op = "step" /\ err # NoPanic) =>
        \A other \in Alike : step(other).panic = err

\* a step() failed for a missing symbol after the machine had run, on a tape
\* with cells on both sides of the head, in a row that has another rule
UndefinedLookupDeterminismSeen ==
    /\ op = "step" /\ err = Panic("Error1")
    /\ pre.steps > 0
    /\ pre.tape.left # <<>> /\ pre.tape.right # <<>>
    /\ DOMAIN table[pre.state] # {}

----------------------------------------------------------------------------
(* C12: a step() whose rule names a next state that has no row (and is not  *)
(* "HALT") succeeds and installs that state; the "Error2" failure comes     *)
(* with the step() entered in that state; and nothing fails but a step()    *)
(* entered in a configuration whose own entry is missing.                   *)
LazyValidation ==
    /\ (SteppedLive /\ PreDefined /\ PreRule[3] # HALT
            /\ PreRule[3] \notin DOMAIN table) =>
          (err = NoPanic /\ state = PreRule[3])
    /\ (SteppedLive /\ pre.state \notin DOMAIN table) => err = Panic("Error2")
    /\ err # NoPanic => (SteppedLive /\ ~PreDefined)

\* a step() installed a state that has no row, and did not fail
LazyValidationSeen ==
    /\ SteppedLive /\ PreDefined
    /\ state # HALT /\ state \notin DOMAIN table
    /\ err = NoPanic
    /\ steps = pre.steps + 1

----------------------------------------------------------------------------
(* Tables with no path to "HALT". *)

\* the next states of the rules of the rows of S
NextStates(tb, S) ==
    UNION {{tb[q][c][3] : c \in DOMAIN tb[q]} : q \in S \cap DOMAIN tb}

RECURSIVE Reachable(_, _)
\* the states the rules of tb lead to from the states S
Reachable(tb, S) ==
    IF NextStates(tb, S) \subseteq S THEN S
    ELSE Reachable(tb, S \cup NextStates(tb, S))

\* the symbols t holds or tb can write from q, and the blank
Alphabet(tb, q, t) ==
    {BLANK} \cup {Cell(t, i) : i \in (-Len(t.left))..Len(t.right)}
            \cup UNION {{tb[s][c][1] : c \in DOMAIN tb[s]} :
                            s \in Reachable(tb, {q}) \cap DOMAIN tb}

\* from state q on tape t, table tb leads to no "HALT" and to no missing entry
NoPathToHalt(tb, q, t) ==
    /\ HALT \notin Reachable(tb, {q})
    /\ Reachable(tb, {q}) \subseteq DOMAIN tb
    /\ \A s \in Reachable(tb, {q}) : Alphabet(tb, q, t) \subseteq DOMAIN tb[s]

(* C13: with a table that has no path to "HALT", every call leaves the      *)
(* machine in a state other than "HALT" from which there is still no path,  *)
(* nothing fails, every step() adds one to the step counter, and run()      *)
(* does not return: after N step() calls the state is not "HALT" and the    *)
(* counter is N higher.                                                     *)
NeverHalts ==
    [][NoPathToHalt(table, state, tape) =>
          /\ state' # HALT
          /\ NoPathToHalt(table', state', tape')
          /\ err' = NoPanic
          /\ op' = "step" => steps' = steps + 1
          /\ ~(op' = "run" /\ pc' = "idle")]_vars

\* the driver called step() MaxSteps times on a two-state table with no
\* path to "HALT"
NeverHaltsSeen ==
    /\ NoPathToHalt(table, state, tape)
    /\ DOMAIN table = {"A", "B"}
    /\ op = "step" /\ pc = "idle"
    /\ steps = MaxSteps /\ calls = MaxSteps
    /\ state # HALT

----------------------------------------------------------------------------
\* the 2-state busy beaver entered by run() in state "A" on a blank tape
BusyBeaverEntered ==
    /\ table = BusyBeaver2
    /\ entry = [steps |-> 0, state |-> "A", tape |-> Tape(<<>>, BLANK, <<>>)]

\* run() has returned with the busy beaver's reference values
BusyBeaverDone ==
    /\ Returned
    /\ state = HALT
    /\ steps = 6
    /\ count1s(tape) = 4

(* C14: run() on the 2-state busy beaver, from state "A" on a blank tape,   *)
(* halts, with the step counter at 6 and count1s() = 4.                     *)
BusyBeaverScore ==
    /\ []((BusyBeaverEntered /\ Returned) => BusyBeaverDone)
    /\ (BusyBeaverEntered /\ pc = "run") ~> (BusyBeaverEntered /\ BusyBeaverDone)

\* the busy beaver's run has returned, leaving four cells materialized
BusyBeaverScoreSeen ==
    /\ BusyBeaverEntered
    /\ Returned
    /\ steps = 6
    /\ Len(tape.left) + Len(tape.right) + 1 = 4

----------------------------------------------------------------------------
Reverse(q) == [i \in 1..Len(q) |-> q[Len(q) + 1 - i]]

\* the tape read left to right
Flat(t) == Reverse(t.left) \o <<t.center>> \o t.right

(* C15: after any sequence of writes to the head cell and moves,            *)
(* reverse(left) + [center] + right is what the cells hold from the         *)
(* leftmost to the rightmost materialized position, center is the cell at   *)
(* the head position, and every cell outside that range holds the blank.    *)
TapeRefinesCells ==
    LET lo == abs.head - Len(tape.left)
        hi == abs.head + Len(tape.right)
    IN  /\ \A j \in 1..Len(Flat(tape)) : Flat(tape)[j] = abs.cells[lo + j - 1]
        /\ tape.center = abs.cells[abs.head]
        /\ \A p \in Positions : (p < lo \/ p > hi) => abs.cells[p] = BLANK

\* the head went past the left end of the initial tape, after a symbol
\* other than the blank was written on the way
TapeRefinesCellsSeen ==
    /\ Len(hist) = MaxOps
    /\ abs.head < -Len(orig.left)
    /\ \E p \in Positions : p > abs.head /\ abs.cells[p] = "2"
    /\ tape.center = BLANK

----------------------------------------------------------------------------
(* C16: a move never loses a cell: the center goes to the front of the      *)
(* side the head leaves behind, the materialized length changes by at most  *)
(* one, and the tape as it was, read left to right, is still there.         *)
MovKeepsCells ==
    op = "mov" =>
        LET was == Flat(pre.tape)
            now == Flat(tape)
        IN  /\ Len(now) - Len(was) \in {-1, 0, 1}
            /\ \E k \in {0, 1} :
                  /\ Len(now) >= Len(was) + k
                  /\ \A j \in 1..Len(was) : now[j + k] = was[j]
            /\ dir = "L" => (tape.right # <<>> /\ tape.right[1] = pre.tape.center)
            /\ dir = "R" => (tape.left # <<>> /\ tape.left[1] = pre.tape.center)

\* a mov(R) off the right end of a tape holding no blank at all
MovKeepsCellsSeen ==
    /\ op = "mov" /\ dir = "R"
    /\ pre.tape.right = <<>>
    /\ Len(pre.tape.left) = MaxTapeLen
    /\ \A j \in 1..Len(Flat(pre.tape)) : Flat(pre.tape)[j] # BLANK
    /\ Len(Flat(tape)) = Len(Flat(pre.tape)) + 1

----------------------------------------------------------------------------
\* the tape the last step() had after writing and before moving
PreWritten == write(pre.tape, PreRule[1])

(* C17: the write of a step() raises the census of the symbol written by    *)
(* at most one and lowers the census of the symbol it replaces by exactly   *)
(* one, with no change when the two are the same symbol; and the step()     *)
(* as a whole changes count1s() by at most one.                             *)
WriteChangesCensus ==
    (SteppedLive /\ PreDefined) =>
        /\ tape = mov(PreWritten, PreRule[2])
        /\ Census(PreWritten, PreRule[1]) - Census(pre.tape, PreRule[1]) \in {0, 1}
        /\ PreRule[1] # pre.tape.center =>
              /\ Census(PreWritten, pre.tape.center) =
                     Census(pre.tape, pre.tape.center) - 1
              /\ Census(PreWritten, PreRule[1]) = Census(pre.tape, PreRule[1]) + 1
        /\ PreRule[1] = pre.tape.center =>
              \A x \in Symbols : Census(PreWritten, x) = Census(pre.tape, x)
        /\ \A x \in Symbols \ {PreRule[1], pre.tape.center} :
              Census(PreWritten, x) = Census(pre.tape, x)
        /\ count1s(tape) - count1s(pre.tape) \in {-1, 0, 1}

\* a step() wrote "1" over a blank and moved left off the materialized end,
\* which added a blank cell and one to count1s()
WriteChangesCensusSeen ==
    /\ SteppedLive /\ PreDefined
    /\ PreRule[1] = ONE /\ pre.tape.center = BLANK
    /\ PreRule[2] = "L" /\ pre.tape.left = <<>>
    /\ count1s(tape) = count1s(pre.tape) + 1
    /\ Census(tape, BLANK) = Census(pre.tape, BLANK)

----------------------------------------------------------------------------
(* C18: mov(N) leaves left, center and right as they are, so a step()       *)
(* whose rule moves N changes the symbol under the head, the state and the  *)
(* step counter and nothing else.                                           *)
StepStaysOnN ==
    (SteppedLive /\ PreDefined /\ PreRule[2] = "N") =>
        /\ mov(PreWritten, "N") = PreWritten
        /\ tape.left = pre.tape.left
        /\ tape.right = pre.tape.right
        /\ tape.center = PreRule[1]
        /\ state = PreRule[3]
        /\ steps = pre.steps + 1
        /\ err = NoPanic

\* a step() with a rule that moves N wrote another symbol between two
\* materialized cells
StepStaysOnNSeen ==
    /\ SteppedLive /\ PreDefined /\ PreRule[2] = "N"
    /\ PreRule[1] # pre.tape.center
    /\ pre.tape.left # <<>> /\ pre.tape.right # <<>>
    /\ tape.center = PreRule[1]

----------------------------------------------------------------------------
(* C19: when step() fails, left, center, right and the state are as they    *)
(* were when it was entered, and the step counter is one higher.            *)
FailedStepKeepsMachine ==
    (op = "step" /\ err # NoPanic) =>
        /\ tape = pre.tape
        /\ state = pre.state
        /\ steps = pre.steps + 1

\* a step() failed for a missing symbol on a machine that had applied two
\* rules or more and written its tape
FailedStepKeepsMachineSeen ==
    /\ op = "step" /\ err = Panic("Error1")
    /\ pre.steps >= 2
    /\ steps = pre.steps + 1
    /\ Len(tape.left) + Len(tape.right) > 2 * MaxInitLen

----------------------------------------------------------------------------
(* C20: a call of count1s() leaves the step counter, the state, the table   *)
(* and the tape as they are, however often it is made, so the step() that   *)
(* follows does what it would have done without the call.                   *)
CountIsPureObservation ==
    [][op' = "count1s" =>
          /\ steps' = steps
          /\ state' = state
          /\ table' = table
          /\ tape' = tape
          /\ step(Self') = step(Self)]_vars

\* count1s() was called between step() calls, on a machine that had written
\* "1" on both sides of the head and had not halted
CountIsPureObservationSeen ==
    /\ op = "count1s" /\ pc = "idle"
    /\ steps >= 2
    /\ state # HALT
    /\ ones >= 2
    /\ tape.left # <<>> /\ tape.right # <<>>

====
